---- MODULE Spec2Model ----
(***************************************************************************)
(* Atari-Go (capture Go): the board / group / capture engine and the turn  *)
(* controller of src/Atari-Go.py, as a state machine.                      *)
(*                                                                         *)
(* The board is the numpy matrix of Game.board: board[col][row] is 0       *)
(* (empty), 1 (black) or 2 (white).  Every input event of Game.update and  *)
(* of the modal loop of Game.show_winner_message is one action.            *)
(* pygame.QUIT is sys.exit() in both loops: the process ends, which is the *)
(* machine stuttering from then on, so it has no action of its own.        *)
(***************************************************************************)
EXTENDS Integers, Sequences, FiniteSets, TLC

\* ------------------------------------------------------------ constants
BOARD_WIDTH == 1010
BOARD_BORDER == 75
WINNING_SCORE == 1
\* the size the program is started with: Game(size=19)
GAME_SIZE == 19

\* ------------------------------------------------------------ bounds
\* accepted placements in one run
MaxMoves == 5
\* columns of the board the sampled clicks fall on
ClickCols == 3

\* Board sizes Game.__init__ is run with: the 2x2 and 3x3 boards, the 5x5
\* board of the capture scenario, and the program's own 19x19 board.
Sizes == {2, 3, 5, GAME_SIZE}

VARIABLES
    size,           \* Game.size
    board,          \* Game.board
    black_turn,     \* Game.black_turn
    prisoners,      \* Game.prisoners
    pc,             \* "playing": in Game.update's loop; "winner_message": inside
                    \* show_winner_message, called from handle_click
    winner,         \* handle_click's local `winner` while the message is shown
    moves,          \* history: accepted placements per colour
    first_capture,  \* history: colour of the first move that captured, or "None"
    last            \* history: what the program did with the last input event

vars == <<size, board, black_turn, prisoners, pc, winner, moves, first_capture, last>>

\* ------------------------------------------------------------ pixel <-> grid
\* Python's round(): to the nearest integer, a tie to the even one; n / d, d > 0.
RoundHalfEven(n, d) ==
    LET q == n \div d
        r == n % d
    IN  IF 2 * r < d THEN q
        ELSE IF 2 * r > d THEN q + 1
        ELSE IF q % 2 = 0 THEN q ELSE q + 1

\* inc = (BOARD_WIDTH - 2 * BOARD_BORDER) / (size - 1); col = int(round(x_dist / inc))
xy_to_colrow(x, y, sz) ==
    <<RoundHalfEven((x - BOARD_BORDER) * (sz - 1), BOARD_WIDTH - 2 * BOARD_BORDER),
      RoundHalfEven((y - BOARD_BORDER) * (sz - 1), BOARD_WIDTH - 2 * BOARD_BORDER)>>

\* x = int(BOARD_BORDER + col * inc), for col, row >= 0
colrow_to_xy(col, row, sz) ==
    <<BOARD_BORDER + (col * (BOARD_WIDTH - 2 * BOARD_BORDER)) \div (sz - 1),
      BOARD_BORDER + (row * (BOARD_WIDTH - 2 * BOARD_BORDER)) \div (sz - 1)>>

\* ------------------------------------------------------------ board helpers
\* board.shape[0]
shape0(b) == Cardinality(DOMAIN b)

\* np.zeros((size, size))
zeros(sz) == [c \in 0..(sz - 1) |-> [r \in 0..(sz - 1) |-> 0]]

\* the nodes of nx.grid_graph(dim=[size, size])
all_spaces(b) == (DOMAIN b) \X (DOMAIN b)

\* grid_edge joining diagonal neighbours as well (8-connectivity)
grid_edge_diagonal(p, q) ==
    /\ p # q
    /\ p[1] - q[1] \in {-1, 0, 1}
    /\ p[2] - q[2] \in {-1, 0, 1}

\* the edges of nx.grid_graph: the nodes differ by one in exactly one coordinate
grid_edge(p, q) ==
    \/ p[1] = q[1] /\ (p[2] = q[2] + 1 \/ q[2] = p[2] + 1)
    \/ p[2] = q[2] /\ (p[1] = q[1] + 1 \/ q[1] = p[1] + 1)

\* the connected component of `seen` in the grid graph restricted to `stones`
RECURSIVE component(_, _)
component(stones, seen) ==
    LET more == seen \cup {p \in stones : \E q \in seen : grid_edge(p, q)}
    IN  IF more = seen THEN seen ELSE component(stones, more)

\* ------------------------------------------------------------ rules
\* has_no_liberties answering True as soon as one stone of the group has no
\* empty neighbour
has_no_liberties_any_stone(b, group) ==
    \E p \in group :
        LET x == p[1]
            y == p[2]
        IN  /\ ~(x > 0 /\ b[x - 1][y] = 0)
            /\ ~(y > 0 /\ b[x][y - 1] = 0)
            /\ ~(x < shape0(b) - 1 /\ b[x + 1][y] = 0)
            /\ ~(y < shape0(b) - 1 /\ b[x][y + 1] = 0)

\* has_no_liberties without its fourth test (the neighbour at y + 1)
has_no_liberties_three_sides(b, group) ==
    \A p \in group :
        LET x == p[1]
            y == p[2]
        IN  /\ ~(x > 0 /\ b[x - 1][y] = 0)
            /\ ~(y > 0 /\ b[x][y - 1] = 0)
            /\ ~(x < shape0(b) - 1 /\ b[x + 1][y] = 0)

\* has_no_liberties(board, group): False at the first empty in-bounds
\* neighbour of a stone of the group, True when the loop finds none
has_no_liberties(b, group) ==
    \A p \in group :
        LET x == p[1]
            y == p[2]
        IN  /\ ~(x > 0 /\ b[x - 1][y] = 0)
            /\ ~(y > 0 /\ b[x][y - 1] = 0)
            /\ ~(x < shape0(b) - 1 /\ b[x + 1][y] = 0)
            /\ ~(y < shape0(b) - 1 /\ b[x][y + 1] = 0)

\* get_stone_groups over a graph without its edges: every stone a group
get_stone_groups_no_edges(b, color) ==
    LET color_code == IF color = "black" THEN 1 ELSE 2
        stones == {p \in all_spaces(b) : b[p[1]][p[2]] = color_code}
    IN  {{s} : s \in stones}

\* the connected components, as a set (nx.connected_components yields them
\* in the order of the graph's node iteration)
get_stone_groups(b, color) ==
    LET color_code == IF color = "black" THEN 1 ELSE 2
        stones == {p \in all_spaces(b) : b[p[1]][p[2]] = color_code}
    IN  {component(stones, {s}) : s \in stones}

\* is_valid_move with the lower bound of the row test off by one
is_valid_move_row_from_one(col, row, b) ==
    IF col < 0 \/ col >= shape0(b) THEN FALSE
    ELSE IF row <= 0 \/ row >= shape0(b) THEN FALSE
    ELSE b[col][row] = 0

\* module-level is_valid_move(col, row, board)
is_valid_move(col, row, b) ==
    IF col < 0 \/ col >= shape0(b) THEN FALSE
    ELSE IF row < 0 \/ row >= shape0(b) THEN FALSE
    ELSE b[col][row] = 0

\* Game.is_valid_move without the test of the intersection being empty
Game_is_valid_move_in_range(b, col, row) ==
    IF col < 0 \/ col >= shape0(b) \/ row < 0 \/ row >= shape0(b) THEN FALSE
    ELSE TRUE

\* Game.is_valid_move(col, row)
Game_is_valid_move(b, col, row) ==
    IF col < 0 \/ col >= shape0(b) \/ row < 0 \/ row >= shape0(b) THEN FALSE
    ELSE b[col][row] = 0

\* check_winner testing White's count before Black's
check_winner_white_first(pr) ==
    IF pr.white >= WINNING_SCORE THEN "White"
    ELSE IF pr.black >= WINNING_SCORE THEN "Black"
    ELSE "None"

\* Game.check_winner
check_winner(pr) ==
    IF pr.black >= WINNING_SCORE THEN "Black"
    ELSE IF pr.white >= WINNING_SCORE THEN "White"
    ELSE "None"

\* every order in which list(get_stone_groups(...)) can hold the groups
group_orders(groups) ==
    {seq \in [1..Cardinality(groups) -> groups] :
        \A i, j \in 1..Cardinality(groups) : i # j => seq[i] # seq[j]}

\* `for i, j in group: self.board[i, j] = 0`
clear_group(b, group) ==
    [c \in DOMAIN b |-> [r \in DOMAIN b[c] |-> IF <<c, r>> \in group THEN 0 ELSE b[c][r]]]

\* the loop of capture_stones counting one per captured group, not per stone
RECURSIVE capture_loop_per_group(_, _, _, _)
capture_loop_per_group(b, seq, i, captured_count) ==
    IF i > Len(seq) THEN [board |-> b, captured_count |-> captured_count]
    ELSE IF has_no_liberties(b, seq[i])
         THEN capture_loop_per_group(clear_group(b, seq[i]), seq, i + 1, captured_count + 1)
         ELSE capture_loop_per_group(b, seq, i + 1, captured_count)

\* the loop of Game.capture_stones over the groups from position i on: each
\* group is tested against the board as the earlier removals left it
RECURSIVE capture_loop(_, _, _, _)
capture_loop(b, seq, i, captured_count) ==
    IF i > Len(seq) THEN [board |-> b, captured_count |-> captured_count]
    ELSE IF has_no_liberties(b, seq[i])
         THEN capture_loop(clear_group(b, seq[i]), seq, i + 1,
                           captured_count + Cardinality(seq[i]))
         ELSE capture_loop(b, seq, i + 1, captured_count)

\* capture_stones returning from inside its loop, after the first group
capture_stones_first_group(b, color) ==
    {capture_loop(b, IF Len(seq) = 0 THEN seq ELSE <<seq[1]>>, 1, 0) :
        seq \in group_orders(get_stone_groups(b, color))}

\* Game.capture_stones(color): the outcomes over the orders of the group list
capture_stones(b, color) ==
    {capture_loop(b, seq, 1, 0) : seq \in group_orders(get_stone_groups(b, color))}

\* handle_captures sweeping both colours, the mover's own colour second
handle_captures_both_players(b, pr, bt) ==
    LET self_color == IF bt THEN "black" ELSE "white"
        other_color == IF bt THEN "white" ELSE "black"
    IN  UNION {{[board |-> own.board,
                 prisoners |-> [pr EXCEPT ![self_color] = @ + res.captured_count,
                                          ![other_color] = @ + own.captured_count],
                 captured_count |-> res.captured_count] :
                    own \in capture_stones(res.board, self_color)} :
               res \in capture_stones(b, other_color)}

\* handle_captures crediting the captured stones to the colour swept
handle_captures_credit_other(b, pr, bt) ==
    LET other_color == IF bt THEN "white" ELSE "black"
    IN  {[board |-> res.board,
          prisoners |-> [pr EXCEPT ![other_color] = @ + res.captured_count],
          captured_count |-> res.captured_count] : res \in capture_stones(b, other_color)}

\* Game.handle_captures: sweeps the colour that did not move
handle_captures(b, pr, bt) ==
    LET self_color == IF bt THEN "black" ELSE "white"
        other_color == IF bt THEN "white" ELSE "black"
    IN  {[board |-> res.board,
          prisoners |-> [pr EXCEPT ![self_color] = @ + res.captured_count],
          captured_count |-> res.captured_count] : res \in capture_stones(b, other_color)}

\* the assignment of place_stone with the colour codes swapped
put_stone_swapped(b, bt, col, row) ==
    [b EXCEPT ![col][row] = IF bt THEN 2 ELSE 1]

\* the assignment of Game.place_stone: self.board[col, row] = player
put_stone(b, bt, col, row) ==
    [b EXCEPT ![col][row] = IF bt THEN 1 ELSE 2]

\* Game.place_stone
place_stone(b, pr, bt, col, row) ==
    handle_captures(put_stone(b, bt, col, row), pr, bt)

\* ------------------------------------------------------------ inputs
\* the intersections the sampled clicks aim at: the centre and its four
\* neighbours on the 5x5 board; on the other boards the first ClickCols
\* columns of the two top rows (all of the 2x2 board, the top edge and the
\* row below it on the 3x3 board, the top-left corner of the 19x19 board)
Min(a, b) == IF a < b THEN a ELSE b

click_cells(sz) ==
    IF sz = 5 THEN {<<2, 2>>, <<1, 2>>, <<3, 2>>, <<2, 1>>, <<2, 3>>}
    ELSE (0..(Min(sz, ClickCols) - 1)) \X (0..1)

\* pygame.mouse.get_pos() at a click: the pixel of a sampled intersection, or
\* a pixel on the border of the BOARD_WIDTH x BOARD_WIDTH window (left, top,
\* right, bottom, and two of its corners) where that lies off the grid
mouse_positions(sz) ==
    LET at_cells == {colrow_to_xy(c[1], c[2], sz) : c \in click_cells(sz)}
        far == BOARD_WIDTH - 1
        border == {<<0, BOARD_BORDER>>, <<BOARD_BORDER, 0>>, <<far, BOARD_BORDER>>,
                   <<BOARD_BORDER, far>>, <<0, 0>>, <<far, far>>}
        off_grid(p) == LET cr == xy_to_colrow(p[1], p[2], sz)
                       IN  cr[1] < 0 \/ cr[1] >= sz \/ cr[2] < 0 \/ cr[2] >= sz
    IN  at_cells \cup {p \in border : off_grid(p)}

\* what a click aims at, read off the board before the click
target(b, sz, col, row) ==
    IF col < 0 \/ col > sz - 1 \/ row < 0 \/ row > sz - 1 THEN "off_grid"
    ELSE IF b[col][row] # 0 THEN "occupied"
    ELSE "empty"

\* an entry of `last`: the event, for a click what it aimed at, and for a
\* click on an empty intersection which one; `captured` is the captured_count
\* of the sweep an accepted click ran, 0 for every other event
event(op, tg, col, row) ==
    [op |-> op, target |-> tg, col |-> col, row |-> row, captured |-> 0]

\* ------------------------------------------------------------ state machine
\* Game.__init__(size)
Init ==
    /\ size \in Sizes
    /\ board = zeros(size)
    /\ black_turn = TRUE
    /\ prisoners = [black |-> 0, white |-> 0]
    /\ pc = "playing"
    /\ winner = "None"
    /\ moves = [black |-> 0, white |-> 0]
    /\ first_capture = "None"
    /\ last = event("none", "none", 0, 0)

\* pass_move running the capture sweep of a move before it flips the turn
pass_move_with_sweep ==
    /\ pc = "playing"
    /\ \E out \in handle_captures(board, prisoners, black_turn) :
          board' = out.board /\ prisoners' = out.prisoners
    /\ black_turn' = ~black_turn
    /\ last' = event("pass", "none", 0, 0)
    /\ UNCHANGED <<size, pc, winner, moves, first_capture>>

\* Game.pass_move (KEYUP p in Game.update)
pass_move ==
    /\ pc = "playing"
    /\ black_turn' = ~black_turn
    /\ last' = event("pass", "none", 0, 0)
    /\ UNCHANGED <<size, board, prisoners, pc, winner, moves, first_capture>>

\* Game.handle_click (MOUSEBUTTONUP in Game.update) with the mouse at (x, y),
\* up to its return or to its call of show_winner_message
handle_click(x, y) ==
    /\ pc = "playing"
    /\ LET cr == xy_to_colrow(x, y, size)
           col == cr[1]
           row == cr[2]
           me == IF black_turn THEN "black" ELSE "white"
           tg == target(board, size, col, row)
           ev == IF tg = "empty" THEN event("click", tg, col, row)
                 ELSE event("click", tg, 0, 0)
       IN  IF ~Game_is_valid_move(board, col, row)
           THEN /\ last' = ev
                /\ UNCHANGED <<size, board, black_turn, prisoners, pc, winner,
                               moves, first_capture>>
           ELSE /\ moves.black + moves.white < MaxMoves
                /\ \E out \in place_stone(board, prisoners, black_turn, col, row) :
                      /\ board' = out.board
                      /\ prisoners' = out.prisoners
                      /\ first_capture' =
                            IF first_capture = "None" /\ out.captured_count > 0
                            THEN me ELSE first_capture
                      /\ winner' = check_winner(out.prisoners)
                      /\ IF check_winner(out.prisoners) # "None"
                         THEN pc' = "winner_message" /\ black_turn' = black_turn
                         ELSE pc' = "playing" /\ black_turn' = ~black_turn
                      /\ last' = [ev EXCEPT !.captured = out.captured_count]
                /\ moves' = [moves EXCEPT ![me] = @ + 1]
                /\ UNCHANGED size

\* the loop of show_winner_message takes a click or a p key off the event
\* queue and does nothing with it
show_winner_message_discard(ev) ==
    /\ pc = "winner_message"
    /\ last' = event(ev, "none", 0, 0)
    /\ UNCHANGED <<size, board, black_turn, prisoners, pc, winner, moves, first_capture>>

\* KEYDOWN K_RETURN ends show_winner_message; handle_click goes on with
\* `self.black_turn = not self.black_turn` and returns to Game.update
show_winner_message_return ==
    /\ pc = "winner_message"
    /\ pc' = "playing"
    /\ winner' = "None"
    /\ black_turn' = ~black_turn
    /\ last' = event("return", "none", 0, 0)
    /\ UNCHANGED <<size, board, prisoners, moves, first_capture>>

Next ==
    \/ pass_move
    \/ \E p \in mouse_positions(size) : handle_click(p[1], p[2])
    \/ \E ev \in {"discarded_click", "discarded_pass"} : show_winner_message_discard(ev)
    \/ show_winner_message_return

Spec == Init /\ [][Next]_vars

\* ====================================================================
\* Properties
\* ====================================================================
\* The notions of the rules, stated on their own: not through the flood
\* fill, the liberty test or the capture loop above.  (A value a formula uses
\* more than once is bound by a quantifier over a one-element set.)

Cells == (0..(size - 1)) \X (0..(size - 1))

At(b, p) == b[p[1]][p[2]]

\* the in-bounds orthogonal neighbours of p
Nbrs(p) ==
    {q \in {<<p[1] - 1, p[2]>>, <<p[1] + 1, p[2]>>, <<p[1], p[2] - 1>>, <<p[1], p[2] + 1>>} :
        q \in Cells}

StonesOf(b, k) == {p \in Cells : At(b, p) = k}

\* G is a group of colour k: non-empty, of that colour, closed under
\* same-colour adjacency (maximal) and in one piece (connected)
IsGroup(b, k, G) ==
    /\ G # {}
    /\ \A p \in G : At(b, p) = k /\ \A q \in Nbrs(p) : At(b, q) = k => q \in G
    /\ \A H \in (SUBSET G) \ {{}, G} : \E p \in H : \E q \in G \ H : q \in Nbrs(p)

Groups(b, k) == {G \in SUBSET StonesOf(b, k) : IsGroup(b, k, G)}

\* the empty intersections next to a stone of G
Liberties(b, G) == {q \in UNION {Nbrs(p) : p \in G} : At(b, q) = 0}

\* the stones of colour k in groups without a liberty
DeadStones(b, k) ==
    UNION {G \in SUBSET StonesOf(b, k) : IsGroup(b, k, G) /\ Liberties(b, G) = {}}

Code(bt) == IF bt THEN 1 ELSE 2
Name(bt) == IF bt THEN "black" ELSE "white"

\* this step is a click on an empty intersection of the board, at ClickedPos
ClickOnEmpty == last'.op = "click" /\ last'.target = "empty"
\* this step is a click off the grid or on a stone
ClickOnInvalid == last'.op = "click" /\ last'.target \in {"off_grid", "occupied"}
ClickedPos == <<last'.col, last'.row>>

\* the board right after the placement of this step's click, before the sweep
Placed == [board EXCEPT ![last'.col][last'.row] = Code(black_turn)]

\* the stones of b that are no longer on b2
Removed(b, b2) == {q \in Cells : At(b, q) # 0 /\ At(b2, q) = 0}

HasWinner == prisoners.black >= WINNING_SCORE \/ prisoners.white >= WINNING_SCORE

\* --------------------------------------------------------------------
\* C1: GameOver is terminal: once a move has produced a winner, no later
\* click and no later pass changes the board, a prisoner counter or the
\* active colour.
C1_GameOverTerminal ==
    [][(HasWinner /\ last'.op \in {"click", "pass"})
          => (board' = board /\ prisoners' = prisoners /\ black_turn' = black_turn)]_vars

\* --------------------------------------------------------------------
\* C2: the first player to capture wins: no winner is reported while both
\* prisoner counters are below the threshold, and a reported winner is the
\* colour that made the first capture of the game.
C2_FirstCaptureWins ==
    /\ (~HasWinner) => (winner = "None" /\ pc # "winner_message")
    /\ pc = "winner_message" =>
          \/ winner = "Black" /\ first_capture = "black"
          \/ winner = "White" /\ first_capture = "white"

\* --------------------------------------------------------------------
\* C3: a click off the grid or on an occupied intersection changes neither
\* the board, nor a prisoner counter, nor the active colour.
C3_InvalidMoveChangesNothing ==
    [][ClickOnInvalid
          => (board' = board /\ prisoners' = prisoners /\ black_turn' = black_turn)]_vars

\* a click off the 19x19 grid was rejected with stones of both colours on the board
C3_Witness ==
    /\ size = GAME_SIZE
    /\ last.op = "click" /\ last.target = "off_grid"
    /\ StonesOf(board, 1) # {} /\ StonesOf(board, 2) # {}

\* a click on a stone was rejected
C3_WitnessOccupied ==
    /\ last.op = "click" /\ last.target = "occupied"
    /\ moves.black > 0 /\ moves.white > 0

\* --------------------------------------------------------------------
\* C4: an accepted move by colour c removes every stone of every opposing
\* group that has no liberty on the board as it stands right after the
\* placement, and prisoners[c] grows by exactly the number of stones removed;
\* on the 5x5 board, White's fourth stone around Black's lone stone at (2,2)
\* removes it, makes White's count 1 and White the reported winner.
Arms == {<<1, 2>>, <<3, 2>>, <<2, 1>>, <<2, 3>>}

C4_ScenarioBefore ==
    /\ size = 5
    /\ ~black_turn
    /\ prisoners = [black |-> 0, white |-> 0]
    /\ ClickedPos \in Arms
    /\ StonesOf(board, 1) = {<<2, 2>>}
    /\ StonesOf(board, 2) = Arms \ {ClickedPos}

C4_CaptureCounts ==
    [][ClickOnEmpty =>
          /\ \A placed \in {Placed} :
                 /\ \A q \in DeadStones(placed, Code(~black_turn)) : At(board', q) = 0
                 /\ prisoners'[Name(black_turn)] =
                        prisoners[Name(black_turn)] + Cardinality(Removed(placed, board'))
          /\ C4_ScenarioBefore =>
                /\ board'[2][2] = 0
                /\ prisoners' = [black |-> 0, white |-> 1]
                /\ winner' = "White" /\ pc' = "winner_message"]_vars

\* the end of the 5x5 scenario: five placements, Black's stone gone
C4_Witness ==
    /\ size = 5
    /\ last.op = "click" /\ last.target = "empty"
    /\ moves = [black |-> 1, white |-> 4]
    /\ StonesOf(board, 1) = {} /\ StonesOf(board, 2) = Arms
    /\ prisoners = [black |-> 0, white |-> 1]
    /\ winner = "White"

\* --------------------------------------------------------------------
\* C5: whatever the order in which capture_stones visits the groups, the
\* board after an accepted move is the board right after the placement with
\* exactly the opposing groups that have no liberty on that board taken off.
C5_SweepIsSimultaneous ==
    [][ClickOnEmpty =>
          \A placed \in {Placed} :
              \A dead \in {DeadStones(placed, Code(~black_turn))} :
                  /\ {q \in Cells : At(board', q) # At(placed, q)} = dead
                  /\ \A q \in dead : At(board', q) = 0]_vars

\* on the 2x2 board White's second stone took Black's two separate stones
\* at (0,0) and (1,1) in one move
C5_Witness ==
    /\ size = 2
    /\ last.op = "click" /\ last.target = "empty"
    /\ moves = [black |-> 2, white |-> 2]
    /\ StonesOf(board, 1) = {} /\ StonesOf(board, 2) = {<<0, 1>>, <<1, 0>>}
    /\ prisoners = [black |-> 0, white |-> 2]

\* --------------------------------------------------------------------
\* C6: after every accepted move no group of either colour on the board
\* is without a liberty.
C6_NoDeadGroupAfterMove ==
    (last.op = "click" /\ last.target = "empty")
        => (DeadStones(board, 1) = {} /\ DeadStones(board, 2) = {})

\* --------------------------------------------------------------------
\* C7: the sweep of an accepted move removes no stone whose group has an
\* empty in-bounds neighbour on the board right after the placement.
C7_LiveStonesStay ==
    [][ClickOnEmpty =>
          \A placed \in {Placed} :
              \A k \in {1, 2} :
                  \A G \in Groups(placed, k) :
                      Liberties(placed, G) # {} => \A q \in G : At(board', q) = k]_vars

\* the stone just played took the last liberty but one of an opposing group,
\* which is still on the board; or it was played next to a lone corner stone
C7_Witness ==
    /\ last.op = "click" /\ last.target = "empty"
    /\ \E k \in {1, 2} :
          /\ At(board, <<last.col, last.row>>) = 3 - k
          /\ \E G \in Groups(board, k) :
                /\ Cardinality(Liberties(board, G)) = 1
                /\ \E p \in G : <<last.col, last.row>> \in Nbrs(p)

\* --------------------------------------------------------------------
\* C8: a pass flips the active colour and leaves the board and both prisoner
\* counters as they were; no capture sweep runs.
C8_PassFlipsTurnOnly ==
    [][last'.op = "pass"
          => (black_turn' = ~black_turn /\ board' = board /\ prisoners' = prisoners)]_vars

\* a pass with a group without liberties on the board, of the colour a sweep
\* for the player who passed would have taken: it is still there
C8_Witness ==
    /\ last.op = "pass"
    /\ DeadStones(board, Code(black_turn)) # {}

\* --------------------------------------------------------------------
\* C9: Black is active at the start; a stone placed has the colour active
\* when the click was made; the active colour flips exactly once with every
\* pass and every accepted move (for a winning move when handle_click goes on
\* after the winner message), and not with a rejected click.
C9_TurnOrder ==
    [][/\ last.op = "none" => black_turn
       /\ ClickOnEmpty =>
             /\ At(board', ClickedPos) = Code(black_turn)
             /\ pc' = "playing" => black_turn' = ~black_turn
             /\ pc' = "winner_message" => black_turn' = black_turn
       /\ (pc = "winner_message" /\ pc' = "playing") => black_turn' = ~black_turn
       /\ (pc = "winner_message" /\ pc' = "winner_message") => black_turn' = black_turn
       /\ last'.op = "pass" => black_turn' = ~black_turn
       /\ ClickOnInvalid => black_turn' = black_turn]_vars

\* White's second accepted move has been made after two of Black's: the
\* stone is white and Black is active again
C9_Witness ==
    /\ last.op = "click" /\ last.target = "empty"
    /\ moves = [black |-> 2, white |-> 2]
    /\ At(board, <<last.col, last.row>>) = 2
    /\ pc = "playing" /\ black_turn

\* --------------------------------------------------------------------
\* C10: the prisoner counters start at 0, are never negative and never
\* decrease; a move by colour c leaves the other colour's counter alone and
\* changes prisoners[c] only when it took opposing stones off the board;
\* no other event changes a counter.
C10_PrisonersMonotone ==
    [][/\ last.op = "none" => prisoners = [black |-> 0, white |-> 0]
       /\ prisoners.black >= 0 /\ prisoners.white >= 0
       /\ prisoners'.black >= prisoners.black /\ prisoners'.white >= prisoners.white
       /\ ClickOnEmpty =>
             /\ prisoners'[Name(~black_turn)] = prisoners[Name(~black_turn)]
             /\ prisoners'[Name(black_turn)] # prisoners[Name(black_turn)] =>
                   \E q \in Cells : board[q[1]][q[2]] = Code(~black_turn) /\ At(board', q) = 0
       /\ ~ClickOnEmpty => prisoners' = prisoners]_vars

\* both colours have captured
C10_Witness ==
    /\ prisoners.black >= 1 /\ prisoners.white >= 1
    /\ last.op = "click" /\ last.target = "empty"

\* ------------------------------------------------------------ C11
\* the winner by the counts: nobody while both are below WINNING_SCORE, the
\* colour at or above it when only one is, Black when both are
WinnerByCounts(black, white) ==
    IF black < WINNING_SCORE /\ white < WINNING_SCORE THEN "None"
    ELSE IF black >= WINNING_SCORE /\ white < WINNING_SCORE THEN "Black"
    ELSE IF white >= WINNING_SCORE /\ black < WINNING_SCORE THEN "White"
    ELSE "Black"

\* C11: check_winner returns no winner when both prisoner counts are below
\* the threshold, the colour at or above it when exactly one is, and Black
\* when both are; this is the answer an accepted move reports.
C11_CheckWinner ==
    /\ \A black, white \in 0..MaxMoves :
          check_winner([black |-> black, white |-> white]) = WinnerByCounts(black, white)
    /\ (last.op = "click" /\ last.target = "empty")
          => winner = WinnerByCounts(prisoners.black, prisoners.white)

\* White has just captured while Black already held a prisoner: both counts
\* are at the threshold and Black is reported
C11_Witness ==
    /\ last.op = "click" /\ last.target = "empty" /\ last.captured >= 1
    /\ At(board, <<last.col, last.row>>) = 2
    /\ prisoners.black >= WINNING_SCORE /\ prisoners.white >= WINNING_SCORE
    /\ winner = "Black" /\ pc = "winner_message"

\* ------------------------------------------------------------ C12
\* C12: is_valid_move(col, row) is true iff 0 <= col < N, 0 <= row < N and
\* the cell is empty; it is false for every position outside the grid
\* whatever the board holds, and the module-level function and the method of
\* Game give the same answer for every board and position.  The positions
\* tried run from two lines before the grid over the lines that can hold
\* stones, and from the last line of the grid to two lines behind it.
C12_IsValidMove ==
    \A col, row \in ((-2)..ClickCols) \cup ((size - 1)..(size + 1)) :
        LET in_range == 0 <= col /\ col < size /\ 0 <= row /\ row < size
        IN  /\ is_valid_move(col, row, board) = (in_range /\ board[col][row] = 0)
            /\ ~in_range => ~is_valid_move(col, row, board)
            /\ Game_is_valid_move(board, col, row) = is_valid_move(col, row, board)

\* a 3x3 board holding both colours and empty intersections, on which a click
\* has just been refused for aiming at a stone
C12_Witness ==
    /\ size = 3
    /\ last.op = "click" /\ last.target = "occupied"
    /\ StonesOf(board, 1) # {} /\ StonesOf(board, 2) # {} /\ StonesOf(board, 0) # {}

\* ------------------------------------------------------------ C13
\* C13: for every board and colour get_stone_groups returns a partition of
\* the positions holding that colour into maximal 4-connected components: the
\* groups are pairwise disjoint, their union is the set of positions of the
\* colour, every group is connected and closed under same-colour orthogonal
\* neighbours, and a stone with no same-colour neighbour is a singleton group.
\* The boards are the empty one and the one every accepted move leaves; no
\* other event changes the board.
C13_GroupsArePartition ==
    (last.op = "none" \/ (last.op = "click" /\ last.target = "empty")) =>
        \A k \in {1, 2} :
            \A stones \in {StonesOf(board, k)} :
                \A groups \in {get_stone_groups(board, Name(k = 1))} :
                    /\ \A G, H \in groups : G # H => G \cap H = {}
                    /\ UNION groups = stones
                    /\ \A G \in groups : IsGroup(board, k, G)
                    /\ \A p \in stones :
                          (\A q \in Nbrs(p) : At(board, q) # k) => {p} \in groups

\* the colour swept by the last accepted move holds a group of two or more
\* stones and another group touching it only diagonally
C13_Witness ==
    /\ last.op = "click" /\ last.target = "empty"
    /\ \E k \in {1, 2} :
          /\ At(board, <<last.col, last.row>>) = 3 - k
          /\ \E G, H \in Groups(board, k) :
                /\ G # H /\ Cardinality(G) >= 2
                /\ \E p \in G : \E q \in H :
                      p[1] - q[1] \in {-1, 1} /\ p[2] - q[2] \in {-1, 1}

C16_StoneConservation ==
    /\ Cardinality(StonesOf(board, 1)) + prisoners.white = moves.black
    /\ Cardinality(StonesOf(board, 2)) + prisoners.black = moves.white

\* both colours hold prisoners and the last move took two stones or more
C16_Witness ==
    /\ last.op = "click" /\ last.target = "empty" /\ last.captured >= 2
    /\ prisoners.black >= 1 /\ prisoners.white >= 1

\* ------------------------------------------------------------ C17
\* C17: a suicide move loses to any reply: while no winner exists, a group
\* without liberties on the board belongs to the colour that played itself
\* into it without capturing; the next accepted move of the opponent, on
\* whatever empty cell, removes the group and the opponent is reported winner.
C17_SuicideLosesToAnyReply ==
    [][(ClickOnEmpty /\ ~HasWinner) =>
          \A dead \in {DeadStones(board, Code(~black_turn))} :
              dead # {} =>
                  /\ \A q \in dead : At(board', q) = 0
                  /\ prisoners'[Name(black_turn)] >= Cardinality(dead)
                  /\ winner' = (IF black_turn THEN "Black" ELSE "White")
                  /\ pc' = "winner_message"]_vars

\* on the 19x19 board White's third stone, at (2,1), took Black's only stone:
\* with White on (1,0), (0,1) and (2,1) the stone stood in the corner (0,0),
\* which (2,1) does not touch, so it had no liberty before the reply
C17_Witness ==
    /\ size = GAME_SIZE
    /\ last = [op |-> "click", target |-> "empty", col |-> 2, row |-> 1, captured |-> 1]
    /\ moves = [black |-> 1, white |-> 3]
    /\ StonesOf(board, 1) = {}
    /\ StonesOf(board, 2) = {<<1, 0>>, <<0, 1>>, <<2, 1>>}
    /\ prisoners = [black |-> 0, white |-> 1]
    /\ winner = "White" /\ pc = "winner_message"

\* ------------------------------------------------------------ C18
\* C18: as its docstring states, has_no_liberties returns True if the group
\* has any liberties and False otherwise.
C18_TrueIffAnyLiberty ==
    \A k \in {1, 2} :
        \A G \in Groups(board, k) :
            has_no_liberties(board, G) = (Liberties(board, G) # {})

====
